---- MODULE Spec2Model ----
(***************************************************************************)
(* Model of homework.py: a bot that polls the homework-status API and      *)
(* relays status changes and failures to a chat.                           *)
(*                                                                         *)
(* Texts: the program's Russian literals are transliterated to ASCII, one  *)
(* literal per definition, and are concatenated the way the f-strings of   *)
(* the source concatenate them.  str() of a KeyError is the repr of its    *)
(* argument (single quotes around the text), str() of a dict is Python's   *)
(* dict display.                                                           *)
(***************************************************************************)
EXTENDS Integers, Sequences, FiniteSets, TLC

(***************************************************************************)
(* Bounds of the environment the program runs against.                     *)
(***************************************************************************)
\* largest current_date the remote service returns
MaxDate == 2
\* longest "homeworks" list the remote service returns
MaxItems == 2

(***************************************************************************)
(* Python values.                                                          *)
(***************************************************************************)
\* Python's None: an unset environment variable, a key dict.get() misses
None == "<None>"
\* a local of main() that has not been assigned yet
Unassigned == -1

\* src/homework.py:21
ENDPOINT == "https://practicum.yandex.ru/api/user_api/homework_statuses/"
\* http.HTTPStatus.OK
HTTP_OK == 200

\* values os.getenv can give for a credential
TokenValues == {None, "", "tokA", "tokB"}
ChatValues == {None, "", "chat1"}

\* src/homework.py:25-29
HOMEWORK_VERDICTS ==
    [approved |-> "Rabota proverena: revyueru vsyo ponravilos. Ura!",
     reviewing |-> "Rabota vzyata na proverku revyuerom.",
     rejected |-> "Rabota proverena: u revyuera est zamechaniya."]

\* `status in HOMEWORK_VERDICTS`
VerdictKeys == DOMAIN HOMEWORK_VERDICTS

(***************************************************************************)
(* Results of a call: a returned value or a raised exception.              *)
(***************************************************************************)
Return(v) == [raised |-> FALSE, etype |-> "", detail |-> "", value |-> v]
Raise(t, d) == [raised |-> TRUE, etype |-> t, detail |-> d, value |-> None]

\* str(KeyError(text)) is repr(text)
KeyErrorStr(text) == "'" \o text \o "'"

\* str({'Authorization': f'OAuth {PRACTICUM_TOKEN}'}), src/homework.py:22
HEADERS(practicum_token) ==
    "{'Authorization': 'OAuth "
    \o (IF practicum_token = None THEN "None" ELSE practicum_token) \o "'}"

\* str({'from_date': timestamp})
ParamsStr(timestamp) == "{'from_date': " \o ToString(timestamp) \o "}"

(***************************************************************************)
(* What the remote service and the network can answer to one request.      *)
(***************************************************************************)
HomeworkNames == {None, "hw1"}
HomeworkStatuses == {None, "approved", "reviewing", "rejected", "unknown"}

\* one element of the "homeworks" list: a JSON object, or something else
HomeworkRecords ==
    [isdict : {TRUE}, homework_name : HomeworkNames, status : HomeworkStatuses]
    \cup {[isdict |-> FALSE, homework_name |-> None, status |-> None]}

HomeworkLists ==
    UNION {[1..n -> HomeworkRecords] : n \in 0..MaxItems}

\* current_date: absent, or an integer the service chose
DateFields == {[present |-> FALSE, value |-> 0]}
              \cup [present : {TRUE}, value : 0..MaxDate]

\* the parsed JSON body
JsonBodies ==
    {[isdict |-> FALSE, has_homeworks |-> FALSE, homeworks_is_list |-> FALSE,
      homeworks |-> <<>>, current_date |-> [present |-> FALSE, value |-> 0]]}
    \cup [isdict : {TRUE}, has_homeworks : {FALSE}, homeworks_is_list : {FALSE},
          homeworks : {<<>>}, current_date : DateFields]
    \cup [isdict : {TRUE}, has_homeworks : {TRUE}, homeworks_is_list : {FALSE},
          homeworks : {<<>>}, current_date : DateFields]
    \cup [isdict : {TRUE}, has_homeworks : {TRUE}, homeworks_is_list : {TRUE},
          homeworks : HomeworkLists, current_date : DateFields]

NoBody == [isdict |-> FALSE, has_homeworks |-> FALSE, homeworks_is_list |-> FALSE,
           homeworks |-> <<>>, current_date |-> [present |-> FALSE, value |-> 0]]

\* outcome of requests.get: a RequestException, or a response with a status
\* code whose body parses as JSON or does not
NetOutcomes ==
    {[failed |-> TRUE, status_code |-> 0, parses |-> FALSE, body |-> NoBody]}
    \cup {[failed |-> FALSE, status_code |-> 500, parses |-> FALSE, body |-> NoBody]}
    \cup {[failed |-> FALSE, status_code |-> HTTP_OK, parses |-> FALSE, body |-> NoBody]}
    \cup [failed : {FALSE}, status_code : {HTTP_OK}, parses : {TRUE}, body : JsonBodies]

\* outcome of bot.send_message: accepted by the provider, an ApiException,
\* or an exception that is not an ApiException (a requests error)
ProviderOutcomes == {"accepted", "ApiException", "RequestException"}

\* str() of the provider's exception that is not an ApiException
ProviderErrorStr == "HTTPSConnectionPool: Max retries exceeded"

(***************************************************************************)
(* The functions of homework.py.                                           *)
(***************************************************************************)

\* ", ".join(check)
RECURSIVE JoinNames(_)
JoinNames(names) ==
    IF names = <<>> THEN ""
    ELSE IF Len(names) = 1 THEN names[1]
    ELSE names[1] \o ", " \o JoinNames(Tail(names))

\* mutant: only an unset variable counts as missing
Falsy_NoneOnly(token) == token = None

\* `not token`: None and the empty string are both falsy
Falsy(token) == token = None \/ token = ""

\* the list `check` built by the for loop of check_tokens, in dict order
MissingTokens(practicum_token, telegram_token, telegram_chat_id) ==
    (IF Falsy(practicum_token) THEN <<"PRACTICUM_TOKEN">> ELSE <<>>)
    \o (IF Falsy(telegram_token) THEN <<"TELEGRAM_TOKEN">> ELSE <<>>)
    \o (IF Falsy(telegram_chat_id) THEN <<"TELEGRAM_CHAT_ID">> ELSE <<>>)

check_tokens(practicum_token, telegram_token, telegram_chat_id) ==
    LET check == MissingTokens(practicum_token, telegram_token, telegram_chat_id)
    IN  IF check # <<>>
        THEN Raise("EnvironmentError",
                   "Otsutstvuet peremennaya(ye) okruzheniya: " \o JoinNames(check))
        ELSE Return(None)

\* mutant: the ApiException is not caught either
send_message_ApiExceptionEscapes(message, provider) ==
    IF provider = "accepted" THEN Return(TRUE)
    ELSE Raise(provider, ProviderErrorStr)

\* send_message: the value is the boolean returned; an exception that is not
\* an ApiException is not caught and leaves the function
send_message(message, provider) ==
    IF provider = "ApiException" THEN Return(FALSE)
    ELSE IF provider = "accepted" THEN Return(TRUE)
    ELSE Raise(provider, ProviderErrorStr)

get_api_answer(timestamp, practicum_token, net) ==
    IF net.failed
    THEN Raise("ConnectionError",
               "Oshibka pri zaprose k endpointu " \o ENDPOINT \o " "
               \o "s parametrami: " \o HEADERS(practicum_token) \o " i "
               \o ParamsStr(timestamp))
    ELSE IF net.status_code # HTTP_OK
    THEN Raise("ConnectionError",
               "Oshibka pri zaprose k " \o "endpointu " \o ENDPOINT \o " "
               \o "s parametrami: " \o ParamsStr(timestamp))
    ELSE IF ~net.parses
    THEN Raise("ValueError",
               "Oshibka pri preobrazovanii otveta v JSON: "
               \o "Expecting value: line 1 column 1 (char 0)")
    ELSE Return(net.body)

\* mutant: the type of the "homeworks" value is not checked
check_response_NoListCheck(response) ==
    IF ~response.isdict
    THEN Raise("TypeError", "Nekorrektnyi format otveta API: ozhidaetsya slovar")
    ELSE IF ~response.has_homeworks
    THEN Raise("KeyError",
               KeyErrorStr("Klyuch \"homeworks\" otsutstvuet v otvete API"))
    ELSE Return(response.homeworks)

check_response(response) ==
    IF ~response.isdict
    THEN Raise("TypeError", "Nekorrektnyi format otveta API: ozhidaetsya slovar")
    ELSE IF ~response.has_homeworks
    THEN Raise("KeyError",
               KeyErrorStr("Klyuch \"homeworks\" otsutstvuet v otvete API"))
    ELSE IF ~response.homeworks_is_list
    THEN Raise("TypeError", "Nekorrektnyi format dannykh o domashnikh"
                            \o "rabotakh v otvete API")
    ELSE Return(response.homeworks)

\* mutant: the status value is looked up before the missing-key check
parse_status_StatusFirst(homework) ==
    IF ~homework.isdict
    THEN Raise("AttributeError", "'str' object has no attribute 'get'")
    ELSE LET homework_name == homework.homework_name
             status == homework.status
         IN  IF status \notin VerdictKeys
             THEN Raise("ValueError",
                        "Nevernyi status domashnei raboty: "
                        \o (IF status = None THEN "None" ELSE status))
             ELSE IF homework_name = None
             THEN Raise("KeyError",
                        KeyErrorStr("Otsutstvuet klyuch \"homework_name\" "
                                    \o "ili \"status\" v obyekte homework"))
             ELSE Return("Izmenilsya status proverki "
                         \o "raboty \"" \o homework_name \o "\". "
                         \o HOMEWORK_VERDICTS[status])

parse_status(homework) ==
    IF ~homework.isdict
    THEN Raise("AttributeError", "'str' object has no attribute 'get'")
    ELSE LET homework_name == homework.homework_name
             status == homework.status
         IN  IF homework_name = None \/ status = None
             THEN Raise("KeyError",
                        KeyErrorStr("Otsutstvuet klyuch \"homework_name\" "
                                    \o "ili \"status\" v obyekte homework"))
             ELSE IF status \notin VerdictKeys
             THEN Raise("ValueError",
                        "Nevernyi status domashnei raboty: " \o status)
             ELSE Return("Izmenilsya status proverki "
                         \o "raboty \"" \o homework_name \o "\". "
                         \o HOMEWORK_VERDICTS[status])

\* mutant: the response's current_date is never taken
GetCurrentDate_KeepsCursor(response, timestamp) == timestamp

\* response.get('current_date', timestamp)
GetCurrentDate(response, timestamp) ==
    IF response.current_date.present THEN response.current_date.value
    ELSE timestamp

(***************************************************************************)
(* State.                                                                  *)
(***************************************************************************)
VARIABLES
    PRACTICUM_TOKEN,   \* module globals read from the environment
    TELEGRAM_TOKEN,
    TELEGRAM_CHAT_ID,
    pc,                \* "start", "POLLING", "SLEEPING" or "exited"
    raised,            \* the exception propagating out of main(), or None
    last_status,       \* main()'s local: the last message delivered
    timestamp,         \* main()'s local: the cursor sent as from_date
    delivered,         \* history: the last text the provider accepted, or None
    fetched,           \* history: get_api_answer has been called
    sleeps,            \* history: time.sleep calls since the last fetch
    cyc                \* history: what the cycle that just ran did

vars == <<PRACTICUM_TOKEN, TELEGRAM_TOKEN, TELEGRAM_CHAT_ID, pc, raised,
          last_status, timestamp, delivered, fetched, sleeps, cyc>>

NoDate == [present |-> FALSE, value |-> 0]

\* no request made yet
NoNet == [failed |-> FALSE, status_code |-> 0, parses |-> FALSE, body |-> NoBody]

\* the record of a cycle before it has done anything
NoCycle ==
    [ran |-> FALSE, fetch_args |-> <<>>, translated |-> <<>>, sent |-> <<>>,
     before_status |-> "", before_ts |-> 0, before_delivered |-> None, stage |-> "", empty |-> FALSE,
     message |-> "", failure |-> "", failure_detail |-> "", date |-> NoDate,
     items |-> 0, net |-> NoNet, etype |-> "", homeworks |-> <<>>]

(***************************************************************************)
(* The body of the while loop of main(), src/homework.py:133-150.          *)
(***************************************************************************)

\* mutant: the cursor moves whatever send_message returned
NotifyStatus_AdvanceAlways(ls, ts, response, status_home_work, p1) ==
    LET s == send_message(status_home_work, p1)
    IN  [raised |-> s.raised,
         detail |-> s.detail,
         etype |-> s.etype,
         sent |-> <<[text |-> status_home_work, provider |-> p1]>>,
         last_status |-> IF ~s.raised /\ s.value THEN status_home_work ELSE ls,
         timestamp |-> GetCurrentDate(response, ts)]

\* mutant: the message is recorded whatever send_message returned
NotifyStatus_RecordAlways(ls, ts, response, status_home_work, p1) ==
    LET s == send_message(status_home_work, p1)
    IN  [raised |-> s.raised,
         detail |-> s.detail,
         etype |-> s.etype,
         sent |-> <<[text |-> status_home_work, provider |-> p1]>>,
         last_status |-> status_home_work,
         timestamp |-> IF ~s.raised /\ s.value
                       THEN GetCurrentDate(response, ts) ELSE ts]

\* lines 141-143: send the status message; on True record it and move the
\* cursor.  An exception of send_message leaves the try block.
NotifyStatus(ls, ts, response, status_home_work, p1) ==
    LET s == send_message(status_home_work, p1)
    IN  [raised |-> s.raised,
         detail |-> s.detail,
         etype |-> s.etype,
         sent |-> <<[text |-> status_home_work, provider |-> p1]>>,
         last_status |-> IF ~s.raised /\ s.value THEN status_home_work ELSE ls,
         timestamp |-> IF ~s.raised /\ s.value
                       THEN GetCurrentDate(response, ts) ELSE ts]

\* mutant: the empty list still moves the cursor to current_date
EmptyBranch_AdvancesCursor(ls, ts, response) ==
    [last_status |-> ls, timestamp |-> GetCurrentDate(response, ts)]

\* lines 137-139: the empty list is logged and the rest of the try block is
\* skipped by `continue`
EmptyBranch(ls, ts, response) ==
    [last_status |-> ls, timestamp |-> ts]

\* the try block, lines 135-143
TryBlock(ls, ts, practicum_token, net, p1) ==
    LET base == [raised |-> FALSE, detail |-> "", stage |-> "",
                 last_status |-> ls, timestamp |-> ts, sent |-> <<>>,
                 translated |-> <<>>, continued |-> FALSE, message |-> "",
                 date |-> NoDate, items |-> 0, etype |-> "",
                 homeworks |-> <<>>]
        response == get_api_answer(ts, practicum_token, net)
    IN  IF response.raised
        THEN [base EXCEPT !.raised = TRUE, !.detail = response.detail,
                          !.etype = response.etype, !.stage = "fetch"]
        ELSE
        LET homeworks == check_response(response.value)
            seen == [base EXCEPT !.date = response.value.current_date]
        IN  IF homeworks.raised
            THEN [seen EXCEPT !.raised = TRUE, !.detail = homeworks.detail,
                              !.etype = homeworks.etype,
                              !.stage = "validate"]
            ELSE IF homeworks.value = <<>>
            THEN LET e == EmptyBranch(ls, ts, response.value)
                 IN  [seen EXCEPT !.continued = TRUE,
                                  !.last_status = e.last_status,
                                  !.timestamp = e.timestamp]
            ELSE
            LET status_home_work == parse_status(homeworks.value[1])
                parsed == [seen EXCEPT !.translated = <<homeworks.value[1]>>,
                                       !.items = Len(homeworks.value),
                                       !.homeworks = homeworks.value]
            IN  IF status_home_work.raised
                THEN [parsed EXCEPT !.raised = TRUE,
                                    !.detail = status_home_work.detail,
                                    !.etype = status_home_work.etype,
                                    !.stage = "translate"]
                ELSE
                LET n == NotifyStatus(ls, ts, response.value,
                                      status_home_work.value, p1)
                IN  [parsed EXCEPT !.raised = n.raised, !.detail = n.detail,
                                   !.etype = n.etype,
                                   !.stage = IF n.raised THEN "notify" ELSE "",
                                   !.message = status_home_work.value,
                                   !.sent = n.sent,
                                   !.last_status = n.last_status,
                                   !.timestamp = n.timestamp]

\* line 145
FailureMessage(detail) == "Sboi v rabote programmy: " \o detail

\* mutant: the failure message is sent without comparing it to last_status
HandleFailure_NoDedup(ls, detail, p2) ==
    LET message == FailureMessage(detail)
        s == send_message(message, p2)
    IN  [escaped |-> s.raised,
         etype |-> s.etype,
         failure |-> message,
         sent |-> <<[text |-> message, provider |-> p2]>>,
         last_status |-> IF ~s.raised /\ s.value THEN message ELSE ls]

\* the except block, lines 144-148: the failure message is sent unless it is
\* the last message delivered.  An exception of send_message leaves the
\* handler and, after the finally block, the loop.
HandleFailure(ls, detail, p2) ==
    LET message == FailureMessage(detail)
    IN  IF ls # message
        THEN LET s == send_message(message, p2)
             IN  [escaped |-> s.raised,
                  etype |-> s.etype,
                  failure |-> message,
                  sent |-> <<[text |-> message, provider |-> p2]>>,
                  last_status |-> IF ~s.raised /\ s.value THEN message ELSE ls]
        ELSE [escaped |-> FALSE, etype |-> "", failure |-> message,
              sent |-> <<>>, last_status |-> ls]

\* mutant: `continue` goes to the next iteration without the sleep
AfterTry_ContinueSkipsSleep(continued, escaped) ==
    IF continued THEN "POLLING" ELSE "SLEEPING"

\* the finally block, lines 149-150: every way out of the try statement,
\* `continue` and a propagating exception included, goes through the sleep
AfterTry(continued, escaped) == "SLEEPING"

\* the provider outcomes that matter: one per send_message call made
SendChoices(sent) == IF sent # <<>> THEN ProviderOutcomes ELSE {"accepted"}

\* the last accepted text among the calls of a cycle
RECURSIVE LastAccepted(_, _)
LastAccepted(sent, before) ==
    IF sent = <<>> THEN before
    ELSE IF sent[Len(sent)].provider = "accepted" THEN sent[Len(sent)].text
    ELSE LastAccepted(SubSeq(sent, 1, Len(sent) - 1), before)

(***************************************************************************)
(* Actions.                                                                *)
(***************************************************************************)
Init ==
    /\ PRACTICUM_TOKEN \in TokenValues
    /\ TELEGRAM_TOKEN \in ChatValues
    /\ TELEGRAM_CHAT_ID \in ChatValues
    /\ pc = "start"
    /\ raised = None
    /\ last_status = None
    /\ timestamp = Unassigned
    /\ delivered = None
    /\ fetched = FALSE
    /\ sleeps = 0
    /\ cyc = NoCycle

\* main() up to the loop, lines 126-131
Startup ==
    /\ pc = "start"
    /\ LET c == check_tokens(PRACTICUM_TOKEN, TELEGRAM_TOKEN, TELEGRAM_CHAT_ID)
       IN  IF c.raised
           THEN /\ pc' = "exited"
                /\ raised' = c.etype
                /\ UNCHANGED <<last_status, timestamp>>
           ELSE /\ pc' = "POLLING"
                /\ raised' = None
                /\ last_status' = ""
                /\ timestamp' = 0
    /\ UNCHANGED <<PRACTICUM_TOKEN, TELEGRAM_TOKEN, TELEGRAM_CHAT_ID,
                   delivered, fetched, sleeps, cyc>>

\* one pass through try / except, up to the entry of the finally block
Cycle ==
    /\ pc = "POLLING"
    /\ \E net \in NetOutcomes :
       \E p1 \in SendChoices(TryBlock(last_status, timestamp, PRACTICUM_TOKEN,
                                      net, "accepted").sent) :
         LET t == TryBlock(last_status, timestamp, PRACTICUM_TOKEN, net, p1)
         IN  \E p2 \in (IF t.raised
                        THEN SendChoices(HandleFailure(t.last_status, t.detail,
                                                       "accepted").sent)
                        ELSE {"accepted"}) :
               LET h == IF t.raised
                        THEN HandleFailure(t.last_status, t.detail, p2)
                        ELSE [escaped |-> FALSE, etype |-> "", failure |-> "",
                              sent |-> <<>>, last_status |-> t.last_status]
               IN  /\ last_status' = h.last_status
                   /\ timestamp' = t.timestamp
                   /\ raised' = IF h.escaped THEN h.etype ELSE None
                   /\ pc' = AfterTry(t.continued, h.escaped)
                   /\ delivered' = LastAccepted(t.sent \o h.sent, delivered)
                   /\ cyc' = [ran |-> TRUE,
                              fetch_args |-> <<timestamp>>,
                              translated |-> t.translated,
                              sent |-> t.sent \o h.sent,
                              before_status |-> last_status,
                              before_ts |-> timestamp,
                              before_delivered |-> delivered,
                              stage |-> t.stage,
                              empty |-> t.continued,
                              message |-> t.message,
                              failure |-> h.failure,
                              failure_detail |-> t.detail,
                              date |-> t.date,
                              items |-> t.items,
                              net |-> net,
                              etype |-> t.etype,
                              homeworks |-> t.homeworks]
    /\ fetched' = TRUE
    /\ sleeps' = 0
    /\ UNCHANGED <<PRACTICUM_TOKEN, TELEGRAM_TOKEN, TELEGRAM_CHAT_ID>>

\* time.sleep(RETRY_PERIOD) in the finally block, then the next iteration, or
\* the exception that left the except block leaves main()
Sleep ==
    /\ pc = "SLEEPING"
    /\ sleeps' = sleeps + 1
    /\ pc' = IF raised # None THEN "exited" ELSE "POLLING"
    /\ cyc' = NoCycle
    /\ UNCHANGED <<PRACTICUM_TOKEN, TELEGRAM_TOKEN, TELEGRAM_CHAT_ID, raised,
                   last_status, timestamp, delivered, fetched>>

Next == Startup \/ Cycle \/ Sleep

Spec == Init /\ [][Next]_vars

(***************************************************************************)
(* Properties.                                                             *)
(***************************************************************************)

\* the cycle that just ran got through fetch, validation and translation
Translated == cyc.ran /\ cyc.message # ""

\* the cycle that just ran raised in fetch, validation or translation
FailedBeforeNotify == cyc.ran /\ cyc.stage \in {"fetch", "validate", "translate"}

\* the cycle that just ran sent its status message and the provider took it
StatusAccepted ==
    /\ Translated
    /\ cyc.sent # <<>>
    /\ cyc.sent[1] = [text |-> cyc.message, provider |-> "accepted"]

\* C1: in a cycle where fetch, validation and translation succeed, the
\* Notifier is called only if the translated message differs from the
\* last delivered message held in last_status.
C1_StatusDedup ==
    Translated /\ cyc.sent # <<>> => cyc.message # cyc.before_status

\* C2: a cycle that raises in fetch, validation or translation calls the
\* Notifier at most once, with the failure message, and only if that message
\* differs from last_status; when the failure message is the one the
\* provider accepted last, no call is made.
C2_FailureDedup ==
    FailedBeforeNotify =>
        /\ cyc.failure = FailureMessage(cyc.failure_detail)
        /\ Len(cyc.sent) <= 1
        /\ \A i \in DOMAIN cyc.sent : cyc.sent[i].text = cyc.failure
        /\ cyc.sent # <<>> <=> cyc.failure # cyc.before_status
        /\ cyc.failure = cyc.before_delivered => cyc.sent = <<>>

\* a failing cycle repeated the failure delivered last and stayed silent
C2_Witness ==
    /\ FailedBeforeNotify
    /\ cyc.stage = "fetch"
    /\ cyc.failure = cyc.before_delivered
    /\ cyc.sent = <<>>

\* C3: after startup the cursor changes only in a step that is a cycle whose
\* status message the Notifier accepted; every other step leaves it as it was.
C3_CursorFrame ==
    [][pc # "start" /\ timestamp' # timestamp
         => /\ pc = "POLLING"
            /\ cyc'.message # ""
            /\ cyc'.sent = <<[text |-> cyc'.message, provider |-> "accepted"]>>]_vars

\* a failure message was delivered for a response carrying another date, and
\* the cursor stayed
C3_Witness ==
    /\ FailedBeforeNotify
    /\ cyc.date.present /\ cyc.date.value # cyc.before_ts
    /\ cyc.sent = <<[text |-> cyc.failure, provider |-> "accepted"]>>
    /\ timestamp = cyc.before_ts

\* C4: the only exception that leaves main() is the EnvironmentError of the
\* credentials check, raised before the first cycle.
C4_OnlyConfigErrorEscapes ==
    pc = "exited" => raised = "EnvironmentError" /\ ~fetched

\* C5: every cycle, whatever its branch, ends in SLEEPING, and exactly one
\* sleep lies between a fetch and the next iteration of the loop.
C5_SleepOncePerCycle ==
    /\ cyc.ran => pc = "SLEEPING" /\ sleeps = 0
    /\ pc = "SLEEPING" => cyc.ran
    /\ fetched /\ pc \in {"POLLING", "exited"} => sleeps = 1

\* the empty-list cycle is in its sleep
C5_Witness == cyc.ran /\ cyc.empty /\ pc = "SLEEPING"

\* C6: once main() has set it, last_status is empty while the provider has
\* accepted nothing, and otherwise is the text the provider accepted last.
C6_LastStatusIsLastDelivered ==
    pc # "start" /\ raised # "EnvironmentError" =>
        IF delivered = None THEN last_status = "" ELSE last_status = delivered

\* a failure message is the last text delivered and is held in last_status
C6_Witness ==
    /\ cyc.ran
    /\ cyc.failure # ""
    /\ delivered = cyc.failure
    /\ last_status = cyc.failure
    /\ cyc.before_status # "" /\ cyc.before_status # cyc.failure

\* C7: the cursor never decreases, whatever current_date values the
\* service returns.
C7_CursorMonotone == [][timestamp' >= timestamp]_vars

\* C8: a cycle whose status message the Notifier accepted leaves last_status
\* equal to that message and the cursor equal to the response's current_date,
\* or to its prior value when the response has none, after exactly one
\* Notifier call.
C8_AcceptedStatus ==
    StatusAccepted =>
        /\ last_status = cyc.message
        /\ timestamp = IF cyc.date.present THEN cyc.date.value
                       ELSE cyc.before_ts
        /\ Len(cyc.sent) = 1

\* an accepted status message moved the cursor to a new date
C8_Witness ==
    /\ StatusAccepted
    /\ cyc.date.present
    /\ cyc.date.value # cyc.before_ts

\* a credential is None or empty
MissingCredential ==
    \/ PRACTICUM_TOKEN \in {None, ""}
    \/ TELEGRAM_TOKEN \in {None, ""}
    \/ TELEGRAM_CHAT_ID \in {None, ""}

\* C9: with a credential absent or empty main() ends with EnvironmentError
\* and no fetch, Notifier call or sleep ever happens; with all three present
\* the loop is entered in POLLING with cursor 0 and empty last_status.
C9_CredentialsGate ==
    /\ MissingCredential =>
          /\ pc \in {"start", "exited"}
          /\ pc = "exited" => raised = "EnvironmentError"
          /\ ~fetched /\ sleeps = 0 /\ cyc = NoCycle /\ delivered = None
    /\ ~MissingCredential /\ pc # "start" /\ ~fetched =>
          /\ pc = "POLLING"
          /\ raised = None
          /\ timestamp = 0
          /\ last_status = ""

\* main() has ended on an empty, not absent, credential
C9_Witness ==
    /\ pc = "exited"
    /\ raised = "EnvironmentError"
    /\ TELEGRAM_CHAT_ID = ""
    /\ PRACTICUM_TOKEN \notin {None, ""}
    /\ TELEGRAM_TOKEN \notin {None, ""}

\* C10: a cycle whose valid response has an empty list translates nothing,
\* calls the Notifier not at all, builds no failure message, leaves
\* last_status and the cursor as they were, and goes to the sleep.
C10_EmptyList ==
    cyc.ran /\ cyc.empty =>
        /\ cyc.translated = <<>>
        /\ cyc.sent = <<>>
        /\ cyc.failure = ""
        /\ cyc.stage = ""
        /\ last_status = cyc.before_status
        /\ timestamp = cyc.before_ts
        /\ delivered = cyc.before_delivered
        /\ raised = None
        /\ pc = "SLEEPING"

\* an empty list came with a current_date other than the cursor
C10_Witness ==
    /\ cyc.ran /\ cyc.empty
    /\ cyc.date.present
    /\ cyc.date.value # cyc.before_ts
    /\ cyc.before_status # ""

\* C11: no call of send_message raises: each call made in a cycle returned
\* True (the provider accepted) or False.
C11_SendNeverRaises ==
    \A i \in DOMAIN cyc.sent :
        ~send_message(cyc.sent[i].text, cyc.sent[i].provider).raised

(***************************************************************************)
(* The loop under fair scheduling: the interpreter keeps running main(), so *)
(* a step that is possible is eventually taken.                            *)
(***************************************************************************)
LiveSpec ==
    Init /\ [][Next]_vars
         /\ WF_vars(Startup) /\ WF_vars(Cycle) /\ WF_vars(Sleep)

\* C12: with all credentials present the loop never ends: it is in POLLING
\* again and again, and cycles, each with its fetch, go on happening for ever.
C12_LoopForever ==
    ~MissingCredential => ([]<>(pc = "POLLING") /\ []<>cyc.ran)

\* the HTTP exchange of the cycle that just ran gave a parsed JSON body
FetchReturned ==
    cyc.ran /\ ~cyc.net.failed /\ cyc.net.status_code = HTTP_OK /\ cyc.net.parses

\* the exception types get_api_answer raises for a non-success HTTP status
HttpStatusErrorKinds ==
    {get_api_answer(cyc.before_ts, PRACTICUM_TOKEN, n).etype :
        n \in {m \in NetOutcomes : ~m.failed /\ m.status_code # HTTP_OK}}

\* the exception types get_api_answer raises for a network-level failure
TransportErrorKinds ==
    {get_api_answer(cyc.before_ts, PRACTICUM_TOKEN, n).etype :
        n \in {m \in NetOutcomes : m.failed}}

\* C13: a network failure, a non-success HTTP status and an unparsable body
\* each make the fetch raise, anything else returns the parsed body; the
\* kind raised for an HTTP status or an unparsable body (ProtocolError) is
\* not the kind raised for a network failure (TransportError).
C13_FetchErrorKinds ==
    cyc.ran =>
        /\ cyc.stage = "fetch" <=> ~FetchReturned
        /\ cyc.net.failed => cyc.etype \notin HttpStatusErrorKinds
        /\ ~cyc.net.failed /\ cyc.stage = "fetch"
              => /\ cyc.etype \in HttpStatusErrorKinds
                 /\ cyc.etype \notin TransportErrorKinds

C15_Validator ==
    FetchReturned =>
        LET b == cyc.net.body
        IN  IF ~b.isdict \/ ~b.has_homeworks \/ ~b.homeworks_is_list
            THEN /\ cyc.stage = "validate"
                 /\ cyc.etype \in {"TypeError", "KeyError"}
            ELSE /\ cyc.stage # "validate"
                 /\ cyc.empty <=> b.homeworks = <<>>
                 /\ ~cyc.empty => cyc.homeworks = b.homeworks

\* a list of two different records, the second not even an object, was
\* handed on in its order
C15_Witness ==
    /\ FetchReturned
    /\ Len(cyc.homeworks) = 2
    /\ cyc.homeworks = cyc.net.body.homeworks
    /\ cyc.homeworks[1] # cyc.homeworks[2]
    /\ ~cyc.homeworks[2].isdict
    /\ cyc.date.present

\* C16: every text handed to the Notifier is the text the same cycle would
\* have produced under any other source token.
C16_NoTokenInMessages ==
    \A i \in DOMAIN cyc.sent :
        \A tok \in TokenValues \ {None, ""} :
            LET t == TryBlock(cyc.before_status, cyc.before_ts, tok, cyc.net,
                              cyc.sent[1].provider)
            IN  cyc.sent[i].text \in {t.message, FailureMessage(t.detail)}

\* C17: a cycle makes one fetch, with the cursor it started with, and at
\* most one Notifier call; it translates at most the first record of the
\* list, and a first record that does not translate makes it a failure cycle.
C17_OneFetchOneSend ==
    cyc.ran =>
        /\ cyc.fetch_args = <<cyc.before_ts>>
        /\ Len(cyc.sent) <= 1
        /\ Len(cyc.translated) <= 1
        /\ cyc.translated # <<>>
              => /\ cyc.translated[1] = cyc.net.body.homeworks[1]
                 /\ parse_status(cyc.translated[1]).raised
                       => cyc.stage = "translate"

\* the cycle that just ran sent its status message and send_message
\* returned False
StatusRefused ==
    /\ Translated
    /\ cyc.sent # <<>>
    /\ cyc.sent[1] = [text |-> cyc.message, provider |-> "ApiException"]

\* C18: a cycle whose status message the Notifier refused builds and sends
\* no failure message and leaves last_status and the cursor as they were;
\* the sleep keeps both, and every cycle fetches with the cursor it finds and
\* sends the message of the first record whenever that record translates, so
\* the same record is attempted again.
C18_RefusedStatusRetried ==
    /\ [](StatusRefused =>
            /\ cyc.failure = ""
            /\ cyc.stage = ""
            /\ Len(cyc.sent) = 1
            /\ last_status = cyc.before_status
            /\ timestamp = cyc.before_ts
            /\ raised = None
            /\ pc = "SLEEPING")
    /\ [][/\ pc = "SLEEPING"
             => timestamp' = timestamp /\ last_status' = last_status
          /\ pc = "POLLING"
             => /\ cyc'.fetch_args = <<timestamp>>
                /\ cyc'.message # ""
                      => /\ cyc'.sent # <<>>
                         /\ cyc'.sent[1].text = cyc'.message]_vars

\* a refused status message came with a current_date other than the cursor,
\* while an earlier message had been delivered
C18_Witness ==
    /\ StatusRefused
    /\ cyc.date.present
    /\ cyc.date.value # cyc.before_ts
    /\ cyc.before_status # ""

====
